---- MODULE Spec2Model ----
(***************************************************************************)
(* Model of the BigQuery query tool (tools/bigquery_query.py): one run of  *)
(* BigQueryQueryTool._invoke is a generator that validates its input,      *)
(* builds a client, performs a dry run, applies the byte ceiling, executes *)
(* the query, normalises the rows, appends one JSON line to                *)
(* logs/query_logs.jsonl and yields its messages.                          *)
(*                                                                         *)
(* Byte counts are counted in MiB, so that 5 * 1024 * 1024 * 1024 bytes is *)
(* 5 * GiB with GiB = 1024; Python integers are unbounded, and no          *)
(* arithmetic of the model leaves the range of the checker's integers.     *)
(* A cost in dollars is the exact fraction num / den.                      *)
(***************************************************************************)
EXTENDS Integers, Sequences, FiniteSets, TLC

\* ------------------------------------------------------------ constants
GiB == 1024

MAX_BYTES_PROCESSED == 5 * GiB

BYTES_PER_DOLLAR_separate == 1 * GiB

BYTES_PER_DOLLAR == 5 * GiB

COST_THRESHOLD_WARNING == 1

DEFAULT_MAX_RESULTS == 100

\* Number of overlapping invocations in the concurrent specification.
NumProcs == 2

AllProcs == 1..NumProcs

\* ------------------------------------------------------------ values
\* Optional values: Python's None against a present value.
None == [some |-> FALSE, val |-> 0]

Some(v) == [some |-> TRUE, val |-> v]

NoneStr == [some |-> FALSE, val |-> ""]

\* `x or 0` of an optional integer.
OrZero(o) == IF o.some /\ o.val # 0 THEN o.val ELSE 0

\* `not query`: None and the empty string are falsy.
Falsy_emptyPasses(q) == ~q.some

Falsy(q) == ~q.some \/ q.val = ""

\* Exceptions: the class the except clauses dispatch on, and str(e).
NoExc == [class |-> "", str |-> ""]

Exc(c, s) == [class |-> c, str |-> s]

\* `except BadRequest`: the syntax-class error of the remote service.
IsBadRequest_never(e) == FALSE

IsBadRequest(e) == e.class = "BadRequest"

\* Fractions.
Rat(n, d) == [num |-> n, den |-> d]

RatGt(a, b) == a.num * b.den > b.num * a.den

RatEq(a, b) == a.num * b.den = b.num * a.den

\* f"{cost:.2f}": the cost in whole cents, rounded to the nearest cent.
Cents(c) == (200 * c.num + c.den) \div (2 * c.den)

\* ------------------------------------------------------------ _estimate_query_cost
\* estimated_cost = bytes_processed / BYTES_PER_DOLLAR if bytes_processed else 0
EstimatedCost(bytes) == IF bytes # 0 THEN Rat(bytes, BYTES_PER_DOLLAR) ELSE Rat(0, 1)

ExceedsLimit_wrongUnit(bytes) == bytes > MAX_BYTES_PROCESSED * 1024

ExceedsLimit(bytes) == bytes > MAX_BYTES_PROCESSED

CostWarning(cost) == RatGt(cost, Rat(COST_THRESHOLD_WARNING, 1))

\* The dictionary _estimate_query_cost returns for the dry run's total_bytes_processed.
Estimate(total) ==
    LET bytes == OrZero(total)
        cost == EstimatedCost(bytes)
    IN [bytes_processed |-> bytes,
        estimated_cost_usd |-> cost,
        exceeds_limit |-> ExceedsLimit(bytes),
        estimated_cost_warning |-> CostWarning(cost)]

\* The zero estimation the except clauses log.
EmptyEstimation ==
    [bytes_processed |-> 0,
     estimated_cost_usd |-> Rat(0, 1),
     exceeds_limit |-> FALSE,
     estimated_cost_warning |-> FALSE]

\* ------------------------------------------------------------ messages
TextMessage(prefix, bytes, limit, cents, detail) ==
    [kind |-> "text", prefix |-> prefix, bytes |-> bytes, limit |-> limit,
     cents |-> cents, detail |-> detail]

JsonMessage(response) == [kind |-> "json", payload |-> response]

NoQueryMessage == TextMessage("Error: No SQL query provided", 0, 0, 0, "")

LimitMessage(est) ==
    TextMessage("Query would process", est.bytes_processed, MAX_BYTES_PROCESSED, 0, "")

WarningMessage(est) ==
    TextMessage("This query is estimated to process", est.bytes_processed, 0,
                Cents(est.estimated_cost_usd), "")

SyntaxErrorMessage(e) == TextMessage("BigQuery syntax error: ", 0, 0, 0, e.str)

ExecutionErrorMessage(e) == TextMessage("Error executing query: ", 0, 0, 0, e.str)

NoMessage == TextMessage("", 0, 0, 0, "")

\* ------------------------------------------------------------ rows
\* A cell is a typed value; the types json.dumps accepts are serializable.
Cell(t, r) == [type |-> t, repr |-> r]

IsJsonSerializable(v) == v.type \in {"int", "str", "null"}

\* str(value)
Str(v) == Cell("str", v.repr)

NormalizeValue(v) == IF IsJsonSerializable(v) THEN v ELSE Str(v)

NormalizeRow(row) == [k \in DOMAIN row |-> NormalizeValue(row[k])]

NormalizeRows(rows) == [i \in DOMAIN rows |-> NormalizeRow(rows[i])]

\* results = query_job.result(max_results=max_results): at most max_results rows.
Take(rows, n) == SubSeq(rows, 1, IF Len(rows) < n THEN Len(rows) ELSE n)

\* The cost the response's metadata reports: the dry run's estimate.
MetadataCost_fromJob(est, jobBytes) == EstimatedCost(OrZero(jobBytes))

MetadataCost(est, jobBytes) == est.estimated_cost_usd

Metadata(est, job) ==
    [total_rows |-> job.total_rows,
     schema |-> job.schema,
     query_job_id |-> job.job_id,
     bytes_processed |-> job.bytes,
     estimated_cost_usd |-> MetadataCost(est, job.bytes)]

Response(est, job, maxResults) ==
    [results |-> NormalizeRows(Take(job.rows, maxResults)),
     metadata |-> Metadata(est, job)]

\* ------------------------------------------------------------ _log_query
\* log_data; the wall-clock timestamp is the invocation that took it.
LogData(p, args) ==
    [timestamp |-> p,
     query |-> args.query,
     bytes_processed |-> args.estimation.bytes_processed,
     estimated_cost_usd |-> args.estimation.estimated_cost_usd,
     success |-> args.success,
     error |-> IF args.error.some /\ args.error.val.prefix # ""
               THEN args.error ELSE [some |-> FALSE, val |-> NoMessage]]

LogArgs(q, est, success, error) ==
    [query |-> q, estimation |-> est, success |-> success, error |-> error]

NoLogArgs == LogArgs("", EmptyEstimation, FALSE, [some |-> FALSE, val |-> NoMessage])

\* The text f.write receives: the JSON object, then the newline.
NL == [nl |-> TRUE]

JsonText(data) == [nl |-> FALSE, data |-> data]

LogLine(data) == <<JsonText(data), NL>>

\* Closing a file opened with mode "a" writes its buffer at the end of the file.
FlushAppend_truncate(file, buffer) == buffer

FlushAppend(file, buffer) == file \o buffer

\* `except Exception` around makedirs/open/write: the failure is caught.
LogQueryCatches_propagates == FALSE

LogQueryCatches == TRUE

\* Both except clauses of _invoke call _log_query before they yield.
HandlerNextPc_noLog == "yield_final"

HandlerNextPc == "log_info"

\* ------------------------------------------------------------ inputs
Queries == {NoneStr, Some(""), Some("SELECT 1")}

MaxResultsParams == {None, Some(1)}

\* service_account_key: a JSON key, text that is not JSON, JSON that is no key.
Secrets == {"valid_key", "not_json", "json_without_key"}

\* json.loads(service_account_key_json)
SecretParses_lenient(s) == TRUE

SecretParses(s) == s # "not_json"

\* service_account.Credentials.from_service_account_info(info)
KeyAccepted(s) == s = "valid_key"

CredentialFailure(s) ==
    IF ~SecretParses(s) THEN Exc("JSONDecodeError", "Expecting value")
    ELSE IF ~KeyAccepted(s) THEN Exc("ValueError", "missing fields")
    ELSE NoExc

RemoteErrors == {Exc("BadRequest", "400 Syntax error"), Exc("Forbidden", "403 Access Denied")}

ByteCounts == {0, 1, 2 * GiB, MAX_BYTES_PROCESSED - 1, MAX_BYTES_PROCESSED,
               MAX_BYTES_PROCESSED + 1, 6 * GiB}

DryRunOutcomes ==
    {[exc |-> NoExc, bytes |-> b] : b \in {None} \cup {Some(n) : n \in ByteCounts}}
    \cup {[exc |-> e, bytes |-> None] : e \in RemoteErrors}

Row1 == [id |-> Cell("int", "1"), day |-> Cell("date", "2024-01-01")]

Row2 == [id |-> Cell("int", "2"), day |-> Cell("null", "None")]

ResultSets == {<<>>, <<Row1>>, <<Row1, Row2>>}

Job(bytes, rows) ==
    [bytes |-> bytes, rows |-> rows, total_rows |-> Len(rows),
     schema |-> <<"id", "day">>, job_id |-> "job"]

NoJob == [bytes |-> None, rows |-> <<>>, total_rows |-> 0, schema |-> <<>>, job_id |-> ""]

\* What the executed job reports: nothing, a cache hit, another count, or the estimate.
ExecuteBytes(est) == {None, Some(0), Some(2 * GiB), Some(est.bytes_processed)}

ExecuteOutcomes(est) ==
    {[exc |-> NoExc, job |-> Job(b, r)] : b \in ExecuteBytes(est), r \in ResultSets}
    \cup {[exc |-> e, job |-> NoJob] : e \in RemoteErrors}

\* The inputs of the sequential specification.
FullInputs ==
    [queries |-> Queries, maxResults |-> MaxResultsParams, secrets |-> Secrets,
     dryRuns |-> DryRunOutcomes, sameBytesOnly |-> FALSE, results |-> ResultSets,
     errors |-> RemoteErrors, fileOk |-> BOOLEAN]

\* The inputs of the concurrent specification: every invocation reaches _log_query.
OverlapInputs ==
    [queries |-> {Some("SELECT 1")}, maxResults |-> {None}, secrets |-> {"valid_key"},
     dryRuns |-> {[exc |-> NoExc, bytes |-> Some(2 * GiB)],
                  [exc |-> NoExc, bytes |-> Some(6 * GiB)]},
     sameBytesOnly |-> TRUE, results |-> {<<Row1>>},
     errors |-> {Exc("BadRequest", "400 Syntax error")}, fileOk |-> BOOLEAN]

\* ------------------------------------------------------------ state
VARIABLES
    pc,           \* the position of each invocation of _invoke
    query,        \* tool_parameters.get("query")
    max_results,  \* tool_parameters.get("max_results", 100)
    secret,       \* the service_account_key the credential store returned
    clientSetups, \* how often credentials were read to build a client
    dryRunCalls,  \* client.query(query, job_config=dry_run) calls
    executeCalls, \* client.query(query) calls
    dryRunBytes,  \* what the dry run reported
    cost_estimation, \* the estimation of _estimate_query_cost
    job,          \* the executed job
    failure,      \* the exception an except clause of _invoke caught
    logArgs,      \* the arguments of the _log_query call in progress
    caller,       \* where _log_query was called: "try" block or "handler"
    pending,      \* the message yielded once _log_query returns
    logCalls,     \* the records _log_query handed to logger.info
    logWarnings,  \* logger.warning("Failed to write to query log file")
    buffer,       \* the buffer of the open log file
    msgs,         \* the messages the generator yielded
    raised,       \* an exception left the generator
    auditFile     \* logs/query_logs.jsonl, shared by all invocations

vars == <<pc, query, max_results, secret, clientSetups, dryRunCalls, executeCalls,
          dryRunBytes, cost_estimation, job, failure, logArgs, caller, pending,
          logCalls, logWarnings, buffer, msgs, raised, auditFile>>

invokeVars == <<query, max_results>>

remoteVars == <<dryRunCalls, executeCalls, dryRunBytes, cost_estimation, job>>

logVars == <<logCalls, logWarnings, buffer, auditFile>>

Init ==
    /\ pc = [p \in AllProcs |-> "start"]
    /\ query = [p \in AllProcs |-> NoneStr]
    /\ max_results = [p \in AllProcs |-> DEFAULT_MAX_RESULTS]
    /\ secret = [p \in AllProcs |-> ""]
    /\ clientSetups = [p \in AllProcs |-> 0]
    /\ dryRunCalls = [p \in AllProcs |-> 0]
    /\ executeCalls = [p \in AllProcs |-> 0]
    /\ dryRunBytes = [p \in AllProcs |-> None]
    /\ cost_estimation = [p \in AllProcs |-> EmptyEstimation]
    /\ job = [p \in AllProcs |-> NoJob]
    /\ failure = [p \in AllProcs |-> NoExc]
    /\ logArgs = [p \in AllProcs |-> NoLogArgs]
    /\ caller = [p \in AllProcs |-> ""]
    /\ pending = [p \in AllProcs |-> NoMessage]
    /\ logCalls = [p \in AllProcs |-> <<>>]
    /\ logWarnings = [p \in AllProcs |-> 0]
    /\ buffer = [p \in AllProcs |-> <<>>]
    /\ msgs = [p \in AllProcs |-> <<>>]
    /\ raised = [p \in AllProcs |-> FALSE]
    /\ auditFile = <<>>

\* ------------------------------------------------------------ _invoke
\* The except clauses: the message, the zero estimation, then _log_query.
HandlerMessage(e) ==
    IF IsBadRequest(e) THEN SyntaxErrorMessage(e) ELSE ExecutionErrorMessage(e)

\* An exception raised inside the try block of invocation p.
Handle(p, e) ==
    /\ failure' = [failure EXCEPT ![p] = e]
    /\ logArgs' = [logArgs EXCEPT ![p] =
                     LogArgs(query[p].val, EmptyEstimation, FALSE, Some(HandlerMessage(e)))]
    /\ pending' = [pending EXCEPT ![p] = HandlerMessage(e)]
    /\ caller' = [caller EXCEPT ![p] = "handler"]
    /\ pc' = [pc EXCEPT ![p] = HandlerNextPc]

\* A call of _log_query from the try block, then the yield of message m.
CallLogQuery(p, est, success, error, m) ==
    /\ logArgs' = [logArgs EXCEPT ![p] = LogArgs(query[p].val, est, success, error)]
    /\ pending' = [pending EXCEPT ![p] = m]
    /\ caller' = [caller EXCEPT ![p] = "try"]
    /\ pc' = [pc EXCEPT ![p] = "log_info"]

\* Parameter extraction and the empty-query return.
Invoke(p, in) ==
    /\ pc[p] = "start"
    /\ \E q \in in.queries, m \in in.maxResults :
         /\ query' = [query EXCEPT ![p] = q]
         /\ max_results' = [max_results EXCEPT ![p] =
                              IF m.some THEN m.val ELSE DEFAULT_MAX_RESULTS]
         /\ IF Falsy(q)
            THEN /\ msgs' = [msgs EXCEPT ![p] = Append(@, NoQueryMessage)]
                 /\ pc' = [pc EXCEPT ![p] = "done"]
            ELSE /\ msgs' = msgs
                 /\ pc' = [pc EXCEPT ![p] = "credentials"]
    /\ UNCHANGED <<secret, clientSetups, remoteVars, failure, logArgs, caller, pending,
                   logVars, raised>>

\* Reading the credentials, parsing the key, building the client.
ResolveCredentials(p, in) ==
    /\ pc[p] = "credentials"
    /\ \E s \in in.secrets :
         /\ secret' = [secret EXCEPT ![p] = s]
         /\ clientSetups' = [clientSetups EXCEPT ![p] = @ + 1]
         /\ IF CredentialFailure(s) # NoExc
            THEN Handle(p, CredentialFailure(s))
            ELSE /\ pc' = [pc EXCEPT ![p] = "dry_run"]
                 /\ UNCHANGED <<failure, logArgs, caller, pending>>
    /\ UNCHANGED <<invokeVars, remoteVars, logVars, msgs, raised>>

\* _estimate_query_cost: the dry run and the estimation.
EstimateQueryCost(p, in) ==
    /\ pc[p] = "dry_run"
    /\ \E out \in in.dryRuns :
         /\ dryRunCalls' = [dryRunCalls EXCEPT ![p] = @ + 1]
         /\ IF out.exc # NoExc
            THEN /\ Handle(p, out.exc)
                 /\ UNCHANGED <<dryRunBytes, cost_estimation>>
            ELSE /\ dryRunBytes' = [dryRunBytes EXCEPT ![p] = out.bytes]
                 /\ cost_estimation' = [cost_estimation EXCEPT ![p] = Estimate(out.bytes)]
                 /\ pc' = [pc EXCEPT ![p] = "gate"]
                 /\ UNCHANGED <<failure, logArgs, caller, pending>>
    /\ UNCHANGED <<invokeVars, secret, clientSetups, executeCalls, job, logVars, msgs,
                   raised>>

\* The byte ceiling and the cost warning.
PolicyGate(p) ==
    /\ pc[p] = "gate"
    /\ LET est == cost_estimation[p] IN
         IF est.exceeds_limit
         THEN /\ CallLogQuery(p, est, FALSE, Some(LimitMessage(est)), LimitMessage(est))
              /\ msgs' = msgs
         ELSE /\ msgs' = [msgs EXCEPT ![p] =
                            IF est.estimated_cost_warning
                            THEN Append(@, WarningMessage(est)) ELSE @]
              /\ pc' = [pc EXCEPT ![p] = "execute"]
              /\ UNCHANGED <<logArgs, caller, pending>>
    /\ UNCHANGED <<invokeVars, secret, clientSetups, remoteVars, failure, logVars, raised>>

\* client.query(query), result(max_results), the rows, the metadata, the response.
Execute(p, in) ==
    /\ pc[p] = "execute"
    /\ LET est == cost_estimation[p]
           outcomes == {o \in ExecuteOutcomes(est) :
                          /\ o.exc # NoExc => o.exc \in in.errors
                          /\ o.exc = NoExc => o.job.rows \in in.results
                          /\ (in.sameBytesOnly /\ o.exc = NoExc)
                                => o.job.bytes = Some(est.bytes_processed)}
       IN \E out \in outcomes :
            /\ executeCalls' = [executeCalls EXCEPT ![p] = @ + 1]
            /\ IF out.exc # NoExc
               THEN /\ Handle(p, out.exc)
                    /\ job' = job
               ELSE /\ job' = [job EXCEPT ![p] = out.job]
                    /\ CallLogQuery(p, est, TRUE, [some |-> FALSE, val |-> NoMessage],
                                    JsonMessage(Response(est, out.job, max_results[p])))
                    /\ failure' = failure
    /\ UNCHANGED <<invokeVars, secret, clientSetups, dryRunCalls, dryRunBytes,
                   cost_estimation, logVars, msgs, raised>>

\* ------------------------------------------------------------ _log_query, step by step
\* log_data and logger.info.
LogInfo(p) ==
    /\ pc[p] = "log_info"
    /\ logCalls' = [logCalls EXCEPT ![p] = Append(@, LogData(p, logArgs[p]))]
    /\ pc' = [pc EXCEPT ![p] = "log_open"]
    /\ UNCHANGED <<invokeVars, secret, clientSetups, remoteVars, failure, logArgs, caller,
                   pending, logWarnings, buffer, auditFile, msgs, raised>>

\* The file write failed with an OSError inside _log_query.
LogFailure(p) ==
    LET e == Exc("OSError", "No space left on device") IN
    IF LogQueryCatches
    THEN /\ logWarnings' = [logWarnings EXCEPT ![p] = @ + 1]
         /\ pc' = [pc EXCEPT ![p] = "yield_final"]
         /\ UNCHANGED <<failure, logArgs, caller, pending, raised>>
    ELSE IF caller[p] = "try"
    THEN /\ Handle(p, e)
         /\ UNCHANGED <<logWarnings, raised>>
    ELSE /\ raised' = [raised EXCEPT ![p] = TRUE]
         /\ pc' = [pc EXCEPT ![p] = "done"]
         /\ UNCHANGED <<failure, logArgs, caller, pending, logWarnings>>

\* os.makedirs("logs", exist_ok=True) and open("logs/query_logs.jsonl", "a").
LogOpen(p, in) ==
    /\ pc[p] = "log_open"
    /\ \E ok \in in.fileOk :
         IF ok
         THEN /\ buffer' = [buffer EXCEPT ![p] = <<>>]
              /\ pc' = [pc EXCEPT ![p] = "log_write"]
              /\ UNCHANGED <<failure, logArgs, caller, pending, logWarnings, raised>>
         ELSE /\ LogFailure(p)
              /\ buffer' = buffer
    /\ UNCHANGED <<invokeVars, secret, clientSetups, remoteVars, logCalls, auditFile, msgs>>

\* f.write(json.dumps(log_data) + "\n"): one write into the file's buffer.
LogWrite(p) ==
    /\ pc[p] = "log_write"
    /\ buffer' = [buffer EXCEPT ![p] = @ \o LogLine(LogData(p, logArgs[p]))]
    /\ pc' = [pc EXCEPT ![p] = "log_close"]
    /\ UNCHANGED <<invokeVars, secret, clientSetups, remoteVars, failure, logArgs, caller,
                   pending, logCalls, logWarnings, auditFile, msgs, raised>>

\* Leaving the with block: the buffer is flushed by one write at the end of the file.
LogClose(p, in) ==
    /\ pc[p] = "log_close"
    /\ \E ok \in in.fileOk :
         IF ok
         THEN /\ auditFile' = FlushAppend(auditFile, buffer[p])
              /\ pc' = [pc EXCEPT ![p] = "yield_final"]
              /\ UNCHANGED <<failure, logArgs, caller, pending, logWarnings, raised>>
         ELSE /\ LogFailure(p)
              /\ auditFile' = auditFile
    /\ buffer' = [buffer EXCEPT ![p] = <<>>]
    /\ UNCHANGED <<invokeVars, secret, clientSetups, remoteVars, logCalls, msgs>>

\* The yield that follows _log_query: the error text or the JSON response.
YieldFinal(p) ==
    /\ pc[p] = "yield_final"
    /\ msgs' = [msgs EXCEPT ![p] = Append(@, pending[p])]
    /\ pc' = [pc EXCEPT ![p] = "done"]
    /\ UNCHANGED <<invokeVars, secret, clientSetups, remoteVars, failure, logArgs, caller,
                   pending, logVars, raised>>

\* ------------------------------------------------------------ specifications
\* One invocation at a time: a single blocking invocation over all inputs.
Next ==
    \/ Invoke(1, FullInputs)
    \/ ResolveCredentials(1, FullInputs)
    \/ EstimateQueryCost(1, FullInputs)
    \/ PolicyGate(1)
    \/ Execute(1, FullInputs)
    \/ LogInfo(1)
    \/ LogOpen(1, FullInputs)
    \/ LogWrite(1)
    \/ LogClose(1, FullInputs)
    \/ YieldFinal(1)

Spec == Init /\ [][Next]_vars

\* Overlapping invocations that share the log file.
NextOverlap ==
    \/ \E p \in AllProcs : Invoke(p, OverlapInputs)
    \/ \E p \in AllProcs : ResolveCredentials(p, OverlapInputs)
    \/ \E p \in AllProcs : EstimateQueryCost(p, OverlapInputs)
    \/ \E p \in AllProcs : PolicyGate(p)
    \/ \E p \in AllProcs : Execute(p, OverlapInputs)
    \/ \E p \in AllProcs : LogInfo(p)
    \/ \E p \in AllProcs : LogOpen(p, OverlapInputs)
    \/ \E p \in AllProcs : LogWrite(p)
    \/ \E p \in AllProcs : LogClose(p, OverlapInputs)
    \/ \E p \in AllProcs : YieldFinal(p)

SpecOverlap == Init /\ [][NextOverlap]_vars

\* ------------------------------------------------------------ observations
Done(p) == pc[p] = "done"

\* The query was absent or empty.
NoQuery(p) == pc[p] # "start" /\ (~query[p].some \/ query[p].val = "")

ScannedBytes(p) == IF dryRunBytes[p].some THEN dryRunBytes[p].val ELSE 0

\* The invocation ran the query to its end.
Succeeded(p) == Done(p) /\ executeCalls[p] = 1 /\ failure[p] = NoExc

\* The JSON objects of invocation p in the log file.
FileRecords(p) == {i \in DOMAIN auditFile : ~auditFile[i].nl /\ auditFile[i].data.timestamp = p}

Last(s) == s[Len(s)]

\* The warning branch of the gate is dead: a cost above COST_THRESHOLD_WARNING means
\* more than BYTES_PER_DOLLAR = MAX_BYTES_PROCESSED bytes, which the ceiling stops.
WarningNeverEmitted ==
    \A p \in AllProcs : \A i \in DOMAIN msgs[p] :
        msgs[p][i].kind = "text" => msgs[p][i].prefix # "This query is estimated to process"

\* ------------------------------------------------------------ claims
\* C1: when the dry run reports more bytes than MAX_BYTES_PROCESSED, execute is never
\* called, the only message is a text carrying the scanned byte count and the limit,
\* and _log_query is called once with success = false and that non-zero estimate.
C1_LimitExceededStopsRun ==
    \A p \in AllProcs :
        (dryRunBytes[p].some /\ dryRunBytes[p].val > 5 * GiB) =>
            /\ executeCalls[p] = 0
            /\ Len(msgs[p]) <= 1
            /\ Done(p) =>
                 /\ Len(msgs[p]) = 1
                 /\ msgs[p][1].kind = "text"
                 /\ msgs[p][1].prefix = "Query would process"
                 /\ msgs[p][1].bytes = dryRunBytes[p].val
                 /\ msgs[p][1].limit = 5 * GiB
                 /\ Len(logCalls[p]) = 1
                 /\ logCalls[p][1].success = FALSE
                 /\ logCalls[p][1].bytes_processed = dryRunBytes[p].val
                 /\ logCalls[p][1].bytes_processed # 0
                 /\ RatGt(logCalls[p][1].estimated_cost_usd, Rat(0, 1))
                 /\ logCalls[p][1].error = Some(msgs[p][1])
                 /\ (logWarnings[p] = 0 => Cardinality(FileRecords(p)) = 1)

C1_Witness ==
    \E p \in AllProcs :
        /\ Done(p) /\ dryRunBytes[p] = Some(6 * GiB)
        /\ Len(msgs[p]) = 1 /\ msgs[p][1].bytes = 6 * GiB
        /\ Cardinality(FileRecords(p)) = 1

\* C2 as stated: an unparseable secret yields one text message and no audit record.
C2_Original_NoAuditRecord ==
    \A p \in AllProcs :
        (Done(p) /\ secret[p] = "not_json") =>
            /\ Len(msgs[p]) = 1 /\ msgs[p][1].kind = "text"
            /\ logCalls[p] = <<>>
            /\ FileRecords(p) = {}

\* C2, amended: an unparseable secret makes no remote call and ends the run with one
\* text message that carries the generic execution-error marker and the parse error,
\* and _log_query is called once with success = false, zero bytes and zero cost.
C2_CredentialFailureIsLogged ==
    \A p \in AllProcs :
        secret[p] = "not_json" =>
            /\ dryRunCalls[p] = 0 /\ executeCalls[p] = 0
            /\ failure[p].class = "JSONDecodeError"
            /\ ~raised[p]
            /\ Done(p) =>
                 /\ Len(msgs[p]) = 1
                 /\ msgs[p][1].kind = "text"
                 /\ msgs[p][1].prefix = "Error executing query: "
                 /\ msgs[p][1].detail = failure[p].str
                 /\ Len(logCalls[p]) = 1
                 /\ logCalls[p][1].success = FALSE
                 /\ logCalls[p][1].bytes_processed = 0
                 /\ logCalls[p][1].estimated_cost_usd.num = 0
                 /\ logCalls[p][1].error = Some(msgs[p][1])
                 /\ Cardinality(FileRecords(p)) = (IF logWarnings[p] = 0 THEN 1 ELSE 0)

C2_Witness ==
    \E p \in AllProcs :
        /\ Done(p) /\ secret[p] = "not_json"
        /\ Len(msgs[p]) = 1 /\ Len(logCalls[p]) = 1
        /\ Cardinality(FileRecords(p)) = 1

\* C3 as stated: on success the metadata's cost is the executed job's bytes_processed
\* divided by BYTES_PER_DOLLAR, and the audit record carries the same byte count.
C3_Original_CostFromExecutedBytes ==
    \A p \in AllProcs :
        (Succeeded(p) /\ job[p].bytes.some) =>
            LET md == Last(msgs[p]).payload.metadata IN
            /\ md.bytes_processed = job[p].bytes
            /\ RatEq(md.estimated_cost_usd, Rat(md.bytes_processed.val, 5 * GiB))
            /\ logCalls[p][1].bytes_processed = md.bytes_processed.val

\* C3, amended: on success metadata.bytes_processed is what the executed job reported,
\* while metadata.estimated_cost_usd is the dry run's byte count divided by
\* BYTES_PER_DOLLAR, the estimate the gate used and the audit record carries; it is
\* the executed bytes divided by BYTES_PER_DOLLAR when both byte counts agree.
C3_CostFromDryRunBytes ==
    \A p \in AllProcs :
        Succeeded(p) =>
            LET md == Last(msgs[p]).payload.metadata IN
            /\ Last(msgs[p]).kind = "json"
            /\ md.bytes_processed = job[p].bytes
            /\ RatEq(md.estimated_cost_usd, Rat(ScannedBytes(p), 5 * GiB))
            /\ ScannedBytes(p) <= 5 * GiB
            /\ Len(logCalls[p]) = 1
            /\ logCalls[p][1].success
            /\ logCalls[p][1].bytes_processed = ScannedBytes(p)
            /\ logCalls[p][1].estimated_cost_usd = md.estimated_cost_usd
            /\ (job[p].bytes = Some(ScannedBytes(p)) =>
                  RatEq(md.estimated_cost_usd, Rat(md.bytes_processed.val, 5 * GiB)))

C3_Witness ==
    \E p \in AllProcs :
        /\ Succeeded(p)
        /\ dryRunBytes[p] = Some(5 * GiB - 1)
        /\ job[p].bytes = Some(0)
        /\ Last(msgs[p]).payload.metadata.bytes_processed = Some(0)
        /\ Last(msgs[p]).payload.metadata.estimated_cost_usd.num = 5 * GiB - 1

\* C4: an absent or empty query yields exactly one text message and ends the run with
\* no credential read, no client, no dry run, no execute and no audit record.
C4_EmptyQueryReturnsAtOnce ==
    \A p \in AllProcs :
        NoQuery(p) =>
            /\ Done(p)
            /\ msgs[p] = <<TextMessage("Error: No SQL query provided", 0, 0, 0, "")>>
            /\ clientSetups[p] = 0 /\ dryRunCalls[p] = 0 /\ executeCalls[p] = 0
            /\ logCalls[p] = <<>> /\ logWarnings[p] = 0
            /\ FileRecords(p) = {}
            /\ ~raised[p]

C4_Witness ==
    /\ \E p \in AllProcs : Done(p) /\ query[p] = Some("") /\ Len(msgs[p]) = 1
    /\ auditFile = <<>>

\* C5: an invocation whose credentials resolve calls _log_query exactly once whatever
\* its outcome, and the record is appended once to the file unless that write fails;
\* the empty-query return logs nothing; no invocation ever logs or appends twice.
C5_OneAuditRecordPerRun ==
    \A p \in AllProcs :
        /\ Len(logCalls[p]) <= 1
        /\ Cardinality(FileRecords(p)) <= 1
        /\ NoQuery(p) => (logCalls[p] = <<>> /\ FileRecords(p) = {})
        /\ (Done(p) /\ clientSetups[p] = 1 /\ secret[p] = "valid_key") =>
              /\ Len(logCalls[p]) = 1
              /\ Cardinality(FileRecords(p)) = (IF logWarnings[p] = 0 THEN 1 ELSE 0)
              /\ \A i \in FileRecords(p) : auditFile[i].data = logCalls[p][1]
              /\ logCalls[p][1].success = (executeCalls[p] = 1 /\ failure[p] = NoExc)

C5_Witness ==
    \E p \in AllProcs :
        /\ Done(p) /\ secret[p] = "valid_key"
        /\ executeCalls[p] = 1 /\ failure[p].class = "Forbidden"
        /\ Len(logCalls[p]) = 1 /\ Cardinality(FileRecords(p)) = 1

\* C7: a finished run that failed (no query, credentials, limit, syntax, execution)
\* yielded exactly one text message and no JSON message; a run that succeeded yielded
\* exactly one JSON message, last, preceded by at most one warning text; nothing is
\* ever yielded after the JSON message.
C7_MessageSequence ==
    \A p \in AllProcs :
        LET n == Len(msgs[p])
            jsons == {i \in 1..n : msgs[p][i].kind = "json"}
        IN /\ Cardinality(jsons) <= 1
           /\ \A i \in jsons : i = n
           /\ n <= 2
           /\ (Done(p) /\ ~Succeeded(p)) =>
                 (n = 1 /\ msgs[p][1].kind = "text" /\ jsons = {})
           /\ Succeeded(p) =>
                 /\ jsons = {n}
                 /\ \A i \in 1..(n - 1) :
                       msgs[p][i].prefix = "This query is estimated to process"

C7_Witness ==
    /\ \E p \in AllProcs :
          Done(p) /\ executeCalls[p] = 1 /\ failure[p].class = "BadRequest"
          /\ Len(msgs[p]) = 1
    /\ auditFile # <<>>

\* The messages an invocation's outcome calls for, whatever became of the log file.
ExpectedMessages(p) ==
    IF failure[p] # NoExc
    THEN <<TextMessage(IF failure[p].class = "BadRequest" THEN "BigQuery syntax error: "
                       ELSE "Error executing query: ", 0, 0, 0, failure[p].str)>>
    ELSE IF ScannedBytes(p) > 5 * GiB
    THEN <<TextMessage("Query would process", ScannedBytes(p), 5 * GiB, 0, "")>>
    ELSE <<JsonMessage([results |-> NormalizeRows(Take(job[p].rows, max_results[p])),
                        metadata |-> Metadata(Estimate(dryRunBytes[p]), job[p])])>>

\* C8: a failed write of the log file is only a warning: no exception leaves the
\* generator, the failure never becomes the invocation's error, _log_query is not
\* called again, and the messages are those of the same outcome with the write intact.
C8_AuditFailureIsSwallowed ==
    \A p \in AllProcs :
        /\ ~raised[p]
        /\ failure[p].class # "OSError"
        /\ logWarnings[p] <= 1
        /\ logWarnings[p] = 1 =>
              /\ Len(logCalls[p]) = 1
              /\ FileRecords(p) = {}
              /\ Done(p) => msgs[p] = ExpectedMessages(p)
        /\ (Done(p) /\ ~NoQuery(p) /\ logWarnings[p] = 0) => msgs[p] = ExpectedMessages(p)

C8_Witness ==
    \E p \in AllProcs :
        /\ Done(p) /\ logWarnings[p] = 1
        /\ executeCalls[p] = 1 /\ failure[p] = NoExc
        /\ Last(msgs[p]).kind = "json"
        /\ auditFile = <<>>

\* C9: an exception of execute ends the run with one text message, one _log_query call
\* with success = false and the same text, one execute call and no exception leaving
\* the generator; a BadRequest gets the syntax-error marker, anything else the generic
\* execution-error marker.
C9_SyntaxErrorMarker ==
    \A p \in AllProcs :
        /\ executeCalls[p] <= 1
        /\ ~raised[p]
        /\ (Done(p) /\ executeCalls[p] = 1 /\ failure[p] # NoExc) =>
              /\ Len(msgs[p]) = 1
              /\ msgs[p][1].kind = "text"
              /\ msgs[p][1].prefix = (IF failure[p].class = "BadRequest"
                                      THEN "BigQuery syntax error: "
                                      ELSE "Error executing query: ")
              /\ msgs[p][1].detail = failure[p].str
              /\ Len(logCalls[p]) = 1
              /\ logCalls[p][1].success = FALSE
              /\ logCalls[p][1].error = Some(msgs[p][1])

C9_Witness ==
    \E p \in AllProcs :
        /\ Done(p) /\ executeCalls[p] = 1 /\ failure[p].class = "BadRequest"
        /\ msgs[p][1].prefix = "BigQuery syntax error: "
        /\ Cardinality(FileRecords(p)) = 1

\* The invocation's append to the log file has completed.
Appended(p) == pc[p] \in {"yield_final", "done"} /\ logCalls[p] # <<>> /\ logWarnings[p] = 0

\* C10: with overlapping invocations the log file is, at every moment, a sequence of
\* complete lines (one JSON object, then its newline), and its objects are exactly the
\* records of the invocations whose append completed, each once.
C10_ConcurrentAppendsKeepLines ==
    /\ Len(auditFile) % 2 = 0
    /\ \A i \in DOMAIN auditFile : auditFile[i].nl = (i % 2 = 0)
    /\ \A p \in AllProcs :
          Appended(p) =>
             Cardinality({i \in DOMAIN auditFile :
                            auditFile[i] = JsonText(logCalls[p][1])}) = 1
    /\ \A i \in DOMAIN auditFile :
          ~auditFile[i].nl =>
             \E p \in AllProcs : Appended(p) /\ auditFile[i].data = logCalls[p][1]

C10_Witness ==
    /\ \A p \in AllProcs : Done(p)
    /\ Len(auditFile) = 2 * NumProcs
    /\ auditFile[1].data.timestamp = 2
    /\ auditFile[3].data.timestamp = 1

====
